---- MODULE Spec2Model ----
(***************************************************************************)
(* Three filesystem scripts: fix_json_imports.py (rewrites require(...)    *)
(* references to medicaid_rules_2025.json), generate_structure.py and      *)
(* print_structure.py (dump a directory tree with indentation).            *)
(*                                                                         *)
(* Text is a sequence of atoms.  An atom is one character ("'", "/", ...)  *)
(* or a run of characters no pattern of the scripts can split: the atoms   *)
(* "require(" and "medicaid_rules_2025.json" have no proper border and do  *)
(* not overlap each other or the other atoms, so matching and replacing    *)
(* atom by atom is matching and replacing character by character.          *)
(***************************************************************************)
EXTENDS Integers, Sequences, FiniteSets, TLC

VARIABLES
    from_file, to_file, rel, rpc,                          \* calculate_relative_path
    content, orig, runStart, reads, writes, calls, out,    \* fix_json_imports
    pc, stack, curRoot, curFiles, run, visited, ioError,
    startpath, max_depth, chain, prog, tstack, lines, tpc, \* the tree dumpers
    tvisited

relVars  == <<from_file, to_file, rel, rpc>>
fixVars  == <<content, orig, runStart, reads, writes, calls, out,
              pc, stack, curRoot, curFiles, run, visited, ioError>>
treeVars == <<startpath, max_depth, chain, prog, tstack, lines, tpc, tvisited>>
vars     == <<relVars, fixVars, treeVars>>

(***************************************************************************)
(* Atoms                                                                   *)
(***************************************************************************)
target_filename == "medicaid_rules_2025.json"
REQ == "require("
SQ  == "'"
DQ  == "\""
RP  == ")"
SEP == "/"          \* os.sep on the POSIX host
BS  == "\\"         \* one backslash character
DOT == "."
UP  == ".."

Quotes == {SQ, DQ}

(***************************************************************************)
(* Python string operations on atom sequences                              *)
(***************************************************************************)
Drop(s, n) == SubSeq(s, n + 1, Len(s))
Take(s, n) == SubSeq(s, 1, n)

StartsWith(s, p) == Len(p) <= Len(s) /\ Take(s, Len(p)) = p
EndsWith(s, p)   == Len(p) <= Len(s) /\ Drop(s, Len(s) - Len(p)) = p

\* str.replace(old, new) for a non-empty old: every non-overlapping
\* occurrence, left to right
RECURSIVE StrReplace(_, _, _)
StrReplace(s, old, new) ==
    IF Len(s) < Len(old) THEN s
    ELSE IF StartsWith(s, old) THEN new \o StrReplace(Drop(s, Len(old)), old, new)
    ELSE <<Head(s)>> \o StrReplace(Tail(s), old, new)

\* str.count(ch) for a one-atom ch
RECURSIVE StrCount(_, _)
StrCount(s, ch) ==
    IF s = <<>> THEN 0
    ELSE (IF Head(s) = ch THEN 1 ELSE 0) + StrCount(Tail(s), ch)

(***************************************************************************)
(* os.path on the POSIX host.  A path string is an atom sequence with SEP  *)
(* atoms; an absolute, normalised path is the sequence of its components.  *)
(***************************************************************************)
\* the components of a path string, empty ones included (str.split(sep))
RECURSIVE SplitPath(_)
SplitPath(s) ==
    IF \A i \in 1..Len(s) : s[i] # SEP THEN <<s>>
    ELSE LET k == CHOOSE i \in 1..Len(s) :
                    s[i] = SEP /\ \A j \in 1..(i - 1) : s[j] # SEP
         IN  <<Take(s, k - 1)>> \o SplitPath(Drop(s, k))

\* sep.join(components)
RECURSIVE JoinPath(_)
JoinPath(cs) ==
    IF cs = <<>> THEN <<>>
    ELSE IF Len(cs) = 1 THEN cs[1]
    ELSE cs[1] \o <<SEP>> \o JoinPath(Tail(cs))

\* os.path.join(root, name) for a relative name
PathJoin(root, name) ==
    IF root = <<>> THEN name
    ELSE IF root[Len(root)] = SEP THEN root \o name
    ELSE root \o <<SEP>> \o name

\* os.path.basename: what follows the last separator
Basename(s) == LET cs == SplitPath(s) IN cs[Len(cs)]

\* os.path.normpath of an absolute path, as its component list: empty and
\* "." components dropped, ".." pops (and is dropped at the root)
RECURSIVE NormComps(_, _)
NormComps(acc, cs) ==
    IF cs = <<>> THEN acc
    ELSE LET c == Head(cs) IN
         IF c = <<>> \/ c = <<DOT>> THEN NormComps(acc, Tail(cs))
         ELSE IF c = <<UP>>
              THEN NormComps(IF acc = <<>> THEN acc ELSE Take(acc, Len(acc) - 1),
                             Tail(cs))
         ELSE NormComps(Append(acc, c), Tail(cs))

\* os.getcwd(), as components
Cwd == << <<"w">> >>

\* os.path.abspath, as the component list of the result
AbsPath(p) ==
    IF p # <<>> /\ p[1] = SEP THEN NormComps(<<>>, SplitPath(p))
    ELSE NormComps(Cwd, SplitPath(p))

\* os.path.dirname of an absolute normalised path
DirName(cs) == IF cs = <<>> THEN cs ELSE Take(cs, Len(cs) - 1)

\* len(os.path.commonprefix([start_list, path_list]))
RECURSIVE CommonLen(_, _)
CommonLen(a, b) ==
    IF a = <<>> \/ b = <<>> \/ Head(a) # Head(b) THEN 0
    ELSE 1 + CommonLen(Tail(a), Tail(b))

\* os.path.relpath(path, start) of two absolute normalised paths
RelPath(path_list, start_list) ==
    LET i        == CommonLen(start_list, path_list)
        rel_list == [k \in 1..(Len(start_list) - i) |-> <<UP>>] \o Drop(path_list, i)
    IN  IF rel_list = <<>> THEN <<DOT>> ELSE JoinPath(rel_list)

\* relative_path.replace('\\', '/')
ToForwardSlashes(s) == StrReplace(s, <<BS>>, <<SEP>>)

\* calculate_relative_path without the dirname: relative to the file itself
RelFromFileItself(ff, tf) ==
    ToForwardSlashes(RelPath(AbsPath(tf), AbsPath(ff)))

calculate_relative_path(ff, tf) ==
    LET from_dir == DirName(AbsPath(ff))
        to_abs   == AbsPath(tf)
    IN  ToForwardSlashes(RelPath(to_abs, from_dir))

(***************************************************************************)
(* calculate_relative_path as a pure function: the inputs are drawn from   *)
(* bounded sets of path strings, then the function is applied.             *)
(***************************************************************************)
MaxPathLen == 2

\* directory and file names a POSIX file system allows; the third holds a
\* backslash, which is an ordinary character of a name there
DirNames == { <<"a">>, <<"b">>, <<"b", BS, "c">> }

RECURSIVE DirLists(_)
DirLists(n) ==
    IF n = 0 THEN { <<>> }
    ELSE LET shorter == DirLists(n - 1)
         IN  shorter \cup { Append(d, x) : d \in { e \in shorter : Len(e) = n - 1 },
                                            x \in DirNames }

\* how the caller writes a path: relative, relative with "./", absolute
Styles == { <<>>, <<DOT, SEP>>, <<SEP, "w", SEP>> }

PathStrings(leaf) ==
    { st \o JoinPath(Append(d, leaf)) : st \in Styles, d \in DirLists(MaxPathLen) }

FromFiles == PathStrings(<<"f", ".js">>)
ToFiles   == PathStrings(<<target_filename>>)

fixIdle ==
    /\ content = <<>> /\ orig = <<>> /\ runStart = <<>>
    /\ reads = <<>> /\ writes = <<>> /\ calls = <<>> /\ out = <<>>
    /\ pc = "idle" /\ stack = <<>> /\ curRoot = <<>> /\ curFiles = <<>>
    /\ run = 0 /\ visited = <<>> /\ ioError = <<>>

treeIdle ==
    /\ startpath = <<>> /\ max_depth = 0 /\ chain = 0 /\ prog = "idle"
    /\ tstack = <<>> /\ lines = <<>> /\ tpc = "idle" /\ tvisited = <<>>

relIdle ==
    /\ from_file = <<>> /\ to_file = <<>> /\ rel = <<>> /\ rpc = "idle"

InitRel ==
    /\ from_file \in FromFiles
    /\ to_file \in ToFiles
    /\ rel = <<>>
    /\ rpc = "call"
    /\ fixIdle /\ treeIdle

\* one call of calculate_relative_path(from_file, to_file)
CalculateRelativePath ==
    /\ rpc = "call"
    /\ rel' = calculate_relative_path(from_file, to_file)
    /\ rpc' = "returned"
    /\ UNCHANGED <<from_file, to_file, fixVars, treeVars>>

NextRel == CalculateRelativePath

SpecRel == InitRel /\ [][NextRel]_vars

\* resolving a relative path string against a directory, component by
\* component: ".." is the parent, "." and "" stay
ResolveAgainst(dir, s) == NormComps(dir, SplitPath(s))

\* C5: resolving calculate_relative_path(from_file, to_file) against the
\* directory containing from_file yields the absolute form of to_file.
C5_ResolvesToTarget ==
    rpc = "returned" =>
        ResolveAgainst(DirName(AbsPath(from_file)), rel) = AbsPath(to_file)

\* C5 restricted to targets whose path holds no backslash: this much holds
C5_HoldsWithoutBackslash ==
    (rpc = "returned" /\ StrCount(to_file, BS) = 0) =>
        ResolveAgainst(DirName(AbsPath(from_file)), rel) = AbsPath(to_file)

(***************************************************************************)
(* fix_json_imports.py: the pattern, update_file's rewriting               *)
(***************************************************************************)
\* the pattern of update_file at position i of s:
\*   require\( ['"] [^'"]*? medicaid_rules_2025\.json ['"] \)
\* the index of the match's last atom, 0 when the pattern does not match at i
MatchEnd(s, i) ==
    IF i + 4 <= Len(s) /\ s[i] = REQ /\ s[i + 1] \in Quotes
    THEN LET ends == { j \in (i + 2)..(Len(s) - 2) :
                         /\ s[j] = target_filename
                         /\ s[j + 1] \in Quotes
                         /\ s[j + 2] = RP
                         /\ \A k \in (i + 2)..(j - 1) : s[k] \notin Quotes }
         IN  IF ends = {} THEN 0
             ELSE (CHOOSE j \in ends : \A k \in ends : j <= k) + 2
    ELSE 0

\* pattern.finditer from position pos: the non-overlapping matches, leftmost first
RECURSIVE FindFrom(_, _)
FindFrom(s, pos) ==
    IF pos > Len(s) THEN <<>>
    ELSE LET e == MatchEnd(s, pos) IN
         IF e = 0 THEN FindFrom(s, pos + 1)
         ELSE <<[start |-> pos, end |-> e]>> \o FindFrom(s, e + 1)

\* pattern.search in place of finditer: the first match only
FindFirstOnly(s) ==
    LET all == FindFrom(s, 1) IN IF all = <<>> THEN all ELSE <<all[1]>>

\* list(pattern.finditer(content))
FindIter(s) == FindFrom(s, 1)

\* match.group(0) and match.group(2)
Group0(s, m) == SubSeq(s, m.start, m.end)
Group2(s, m) == SubSeq(s, m.start + 2, m.end - 3)

\* a replacement that keeps the old directory in front of the new path
ReplacementKeepingOld(old_path, new_rel_path) ==
    <<REQ, SQ>> \o old_path \o new_rel_path \o <<SQ, RP>>

\* f"require('{new_rel_path}')"
Replacement(old_path, new_rel_path) ==
    <<REQ, SQ>> \o new_rel_path \o <<SQ, RP>>

\* the for loop of update_file over the matches found in the original content
RECURSIVE ReplaceAll(_, _, _, _, _)
ReplaceAll(new_content, original, matches, file_path, correct_json_path) ==
    IF matches = <<>> THEN new_content
    ELSE LET match        == Head(matches)
             old_path     == Group2(original, match)
             new_rel_path == calculate_relative_path(file_path, correct_json_path)
             full_match   == Group0(original, match)
             replacement  == Replacement(old_path, new_rel_path)
         IN  ReplaceAll(StrReplace(new_content, full_match, replacement),
                        original, Tail(matches), file_path, correct_json_path)

\* the progress lines the loop prints, one per match
RECURSIVE UpdateReports(_, _, _, _)
UpdateReports(original, matches, file_path, correct_json_path) ==
    IF matches = <<>> THEN <<>>
    ELSE LET match == Head(matches) IN
         <<[kind |-> "updated", file |-> file_path,
            old  |-> Group0(original, match),
            new  |-> Replacement(Group2(original, match),
                                 calculate_relative_path(file_path, correct_json_path))]>>
         \o UpdateReports(original, Tail(matches), file_path, correct_json_path)

\* a write on every call
WriteAlways(matches) == TRUE

\* "if matches:" - the file is written only when the list is not empty
ShouldWrite(matches) == matches # <<>>

\* file.endswith('.js') alone
EndsWithJsOnly(file) == EndsWith(file, <<".js">>)

\* file.endswith('.js') or file.endswith('.ts')
IsSourceFile(file) == EndsWith(file, <<".js">>) \/ EndsWith(file, <<".ts">>)

\* an except clause around update_file that lets the loop go on
ErrorSwallowed == "scan"

\* no try/except anywhere: an OSError or UnicodeError leaves the program
OnIOError == "crashed"

(***************************************************************************)
(* fix_json_imports.py: configuration and the project tree it scans        *)
(***************************************************************************)
correct_path == <<"src", SEP, "data", SEP, target_filename>>
project_root == <<DOT>>

\* os.path.abspath(os.path.join(project_root, correct_path)), as a string
full_json_path == <<SEP>> \o JoinPath(AbsPath(PathJoin(project_root, correct_path)))

DirSrc  == PathJoin(project_root, <<"src">>)
DirApp  == PathJoin(DirSrc, <<"app">>)
DirData == PathJoin(DirSrc, <<"data">>)
ProjectDirs == { project_root, DirSrc, DirApp, DirData }

\* the directory entries os.walk reads (os.scandir), in listing order
ListDirs(d) ==
    IF d = project_root THEN << <<"src">> >>
    ELSE IF d = DirSrc THEN << <<"app">>, <<"data">> >>
    ELSE <<>>

ListFiles(d) ==
    IF d = project_root THEN << <<"top", ".js">>, <<"notes", ".md">> >>
    ELSE IF d = DirApp THEN << <<"main", ".ts">>, <<"util", ".js", ".bak">> >>
    ELSE IF d = DirData THEN << <<target_filename>>, <<"index", ".js">> >>
    ELSE <<>>

Range(q) == { q[i] : i \in 1..Len(q) }

AllFiles    == UNION { { PathJoin(d, f) : f \in Range(ListFiles(d)) } : d \in ProjectDirs }
SourceFiles == { p \in AllFiles : IsSourceFile(Basename(p)) }
MainTs      == PathJoin(DirApp, <<"main", ".ts">>)

\* pieces of file text
Filler     == <<"x">>
RefOld     == <<REQ, SQ, UP, SEP, "old", SEP, target_filename, SQ, RP>>
RefLib     == <<REQ, DQ, "lib", SEP, target_filename, DQ, RP>>
RefMixed   == <<REQ, SQ, target_filename, DQ, RP>>
RefOldName == <<REQ, SQ, "x", SEP, "old_", target_filename, SQ, RP>>
Unclosed   == <<REQ, SQ, "x">>
Segments   == { Filler, RefOld, RefLib, RefMixed, RefOldName, Unclosed }

MaxSegs == 2

\* every text of at most n segments
RECURSIVE Texts(_)
Texts(n) ==
    IF n = 0 THEN { <<>> }
    ELSE LET shorter == Texts(n - 1)
         IN  shorter \cup { t \o g : t \in shorter, g \in Segments }

\* what the files hold unless Init chooses otherwise
DefaultText(p) ==
    IF p \in SourceFiles THEN RefLib
    ELSE IF Basename(p) = <<target_filename>> THEN <<"{", "}">>
    ELSE RefOld

MaxRuns == 2

Zero == [p \in AllFiles |-> 0]

InitFix ==
    /\ \E p \in SourceFiles, t \in Texts(MaxSegs) :
          content = [q \in AllFiles |-> IF q = p THEN t ELSE DefaultText(q)]
    /\ orig = content
    /\ runStart = content
    /\ reads = Zero /\ writes = Zero /\ calls = Zero
    /\ out = <<>>
    /\ pc = "main"
    /\ stack = <<>> /\ curRoot = <<>> /\ curFiles = <<>>
    /\ run = 1
    /\ visited = <<>>
    /\ ioError = <<>>
    /\ relIdle /\ treeIdle

Report(kind, file) == [kind |-> kind, file |-> file, old |-> <<>>, new |-> <<>>]

\* __main__ calls scan_and_update_files, which prints its header and starts os.walk
ScanStart ==
    /\ pc = "main"
    /\ out' = Append(out, Report("scanning", <<SEP>> \o JoinPath(AbsPath(project_root))))
    /\ stack' = <<project_root>>
    /\ curRoot' = <<>>
    /\ curFiles' = <<>>
    /\ pc' = "scan"
    /\ UNCHANGED <<content, orig, runStart, reads, writes, calls, run, visited, ioError,
                   relVars, treeVars>>

\* os.walk yields the next directory, top down; its subdirectories come next
WalkNext ==
    /\ pc = "scan"
    /\ curFiles = <<>>
    /\ stack # <<>>
    /\ LET root == Head(stack)
           dirs == ListDirs(root)
       IN  /\ curRoot' = root
           /\ curFiles' = ListFiles(root)
           /\ stack' = [i \in 1..Len(dirs) |-> PathJoin(root, dirs[i])] \o Tail(stack)
    /\ UNCHANGED <<content, orig, runStart, reads, writes, calls, out, pc, run, visited,
                   ioError, relVars, treeVars>>

\* a file whose name has neither extension is passed over
SkipFile ==
    /\ pc = "scan"
    /\ curFiles # <<>>
    /\ ~IsSourceFile(Head(curFiles))
    /\ visited' = Append(visited, PathJoin(curRoot, Head(curFiles)))
    /\ curFiles' = Tail(curFiles)
    /\ UNCHANGED <<content, orig, runStart, reads, writes, calls, out, pc, stack, curRoot,
                   run, ioError, relVars, treeVars>>

\* update_file(full_path, correct_json_path): read, match, replace, report, write
UpdateFile ==
    /\ pc = "scan"
    /\ curFiles # <<>>
    /\ IsSourceFile(Head(curFiles))
    /\ LET full_path == PathJoin(curRoot, Head(curFiles))
           text      == content[full_path]
           matches   == FindIter(text)
       IN  /\ visited' = Append(visited, full_path)
           /\ calls' = [calls EXCEPT ![full_path] = @ + 1]
           /\ reads' = [reads EXCEPT ![full_path] = @ + 1]
           /\ IF ShouldWrite(matches)
              THEN /\ content' = [content EXCEPT ![full_path] =
                          ReplaceAll(text, text, matches, full_path, full_json_path)]
                   /\ writes' = [writes EXCEPT ![full_path] = @ + 1]
                   /\ out' = out \o UpdateReports(text, matches, full_path, full_json_path)
              ELSE /\ out' = Append(out, Report("nomatch", full_path))
                   /\ UNCHANGED <<content, writes>>
    /\ curFiles' = Tail(curFiles)
    /\ UNCHANGED <<orig, runStart, pc, stack, curRoot, run, ioError, relVars, treeVars>>

\* open(file_path, 'r') or f.read() raises (permissions, encoding)
UpdateFileReadError ==
    /\ pc = "scan"
    /\ curFiles # <<>>
    /\ IsSourceFile(Head(curFiles))
    /\ LET full_path == PathJoin(curRoot, Head(curFiles))
       IN  /\ visited' = Append(visited, full_path)
           /\ calls' = [calls EXCEPT ![full_path] = @ + 1]
           /\ ioError' = full_path
    /\ curFiles' = Tail(curFiles)
    /\ pc' = OnIOError
    /\ UNCHANGED <<content, orig, runStart, reads, writes, out, stack, curRoot, run,
                   relVars, treeVars>>

\* open(file_path, 'w') or f.write raises after the matches were reported:
\* the file is as it was, or truncated by the open
UpdateFileWriteError ==
    /\ pc = "scan"
    /\ curFiles # <<>>
    /\ IsSourceFile(Head(curFiles))
    /\ LET full_path == PathJoin(curRoot, Head(curFiles))
           text      == content[full_path]
           matches   == FindIter(text)
       IN  /\ ShouldWrite(matches)
           /\ visited' = Append(visited, full_path)
           /\ calls' = [calls EXCEPT ![full_path] = @ + 1]
           /\ reads' = [reads EXCEPT ![full_path] = @ + 1]
           /\ out' = out \o UpdateReports(text, matches, full_path, full_json_path)
           /\ \E left \in { text, <<>> } :
                 content' = [content EXCEPT ![full_path] = left]
           /\ ioError' = full_path
    /\ curFiles' = Tail(curFiles)
    /\ pc' = OnIOError
    /\ UNCHANGED <<orig, runStart, writes, stack, curRoot, run, relVars, treeVars>>

\* the walk is exhausted: scan_and_update_files returns, __main__ prints the last line
Complete ==
    /\ pc = "scan"
    /\ curFiles = <<>>
    /\ stack = <<>>
    /\ out' = Append(out, Report("complete", <<>>))
    /\ pc' = "done"
    /\ UNCHANGED <<content, orig, runStart, reads, writes, calls, stack, curRoot, curFiles,
                   run, visited, ioError, relVars, treeVars>>

\* the script is run again on the tree the previous run left
RunAgain ==
    /\ pc = "done"
    /\ run < MaxRuns
    /\ run' = run + 1
    /\ runStart' = content
    /\ reads' = Zero /\ writes' = Zero /\ calls' = Zero
    /\ out' = <<>>
    /\ visited' = <<>>
    /\ curRoot' = <<>>
    /\ pc' = "main"
    /\ UNCHANGED <<content, orig, stack, curFiles, ioError, relVars, treeVars>>

NextFix ==
    \/ ScanStart
    \/ WalkNext
    \/ SkipFile
    \/ UpdateFile
    \/ UpdateFileReadError
    \/ UpdateFileWriteError
    \/ Complete
    \/ RunAgain

SpecFix == InitFix /\ [][NextFix]_vars

(***************************************************************************)
(* Properties of fix_json_imports.py                                       *)
(***************************************************************************)
\* the pattern's matches in a text, whatever update_file does with them
Recognised(text) == FindFrom(text, 1)

\* the quoted argument of a recognised reference
Argument(text, m) == SubSeq(text, m.start + 2, m.end - 2)

\* the name's extension, read off the path
HasSourceExtension(p) ==
    LET name == Basename(p) IN name[Len(name)] \in {".js", ".ts"}

\* the relative path from each source file's directory to
\* src/data/medicaid_rules_2025.json, worked out by hand
ExpectedRel(p) ==
    IF p = MainTs THEN <<UP, SEP, "data", SEP, target_filename>>
    ELSE IF p = PathJoin(DirData, <<"index", ".js">>) THEN <<target_filename>>
    ELSE <<"src", SEP, "data", SEP, target_filename>>

\* update_file returned normally on p in this run
Returned(p) == calls[p] > 0 /\ ioError # p

\* C1: after update_file returns, every reference the pattern recognises in
\* the file has exactly calculate_relative_path(file_path, correct_json_path)
\* as its argument.
C1_AllReferencesRewritten ==
    \A p \in AllFiles :
        Returned(p) =>
            \A i \in 1..Len(Recognised(content[p])) :
                Argument(content[p], Recognised(content[p])[i])
                    = calculate_relative_path(p, full_json_path)

\* a file with two different references was rewritten
C1_Witness ==
    \E p \in AllFiles :
        /\ Returned(p) /\ writes[p] = 1 /\ run = 1
        /\ Len(Recognised(orig[p])) = 2
        /\ Group0(orig[p], Recognised(orig[p])[1]) # Group0(orig[p], Recognised(orig[p])[2])
        /\ Len(Recognised(content[p])) = 2

\* C2: a file with exactly one match is written back unchanged except that
\* the matched substring has become require('<relative path>'); for
\* src/app/main.ts that path is ../data/medicaid_rules_2025.json.
C2_OnlyTheMatchChanges ==
    \A p \in AllFiles :
        (Returned(p) /\ Len(Recognised(runStart[p])) = 1) =>
            LET m == Recognised(runStart[p])[1] IN
            content[p] = Take(runStart[p], m.start - 1)
                         \o <<REQ, SQ>> \o ExpectedRel(p) \o <<SQ, RP>>
                         \o Drop(runStart[p], m.end)

\* the example of the specification, with text around the reference
C2_Witness ==
    /\ run = 1 /\ Returned(MainTs)
    /\ orig[MainTs] = Filler \o RefOld
    /\ content[MainTs] =
          Filler \o <<REQ, SQ, UP, SEP, "data", SEP, target_filename, SQ, RP>>

\* C3: a file without a match is never written, keeps its content, and is
\* reported as "No match" when update_file returns on it.
C3_NoMatchNoWrite ==
    \A p \in AllFiles :
        Recognised(runStart[p]) = <<>> =>
            /\ writes[p] = 0
            /\ content[p] = runStart[p]
            /\ Returned(p) =>
                  Cardinality({ i \in 1..Len(out) : out[i] = Report("nomatch", p) }) = 1

\* update_file returned on a file that mentions require( but holds no match
C3_Witness ==
    \E p \in AllFiles :
        /\ Returned(p) /\ orig[p] = Unclosed \o Filler /\ run = 1
        /\ out[Len(out)] = Report("nomatch", p)

\* C4: a second run in succession changes no file's content.
C4_SecondPassFixedPoint ==
    (run >= 2 /\ pc = "done") => content = runStart

\* the first run changed a file and the second run wrote it again
C4_Witness ==
    /\ run = 2 /\ pc = "done"
    /\ \E p \in AllFiles : writes[p] = 1 /\ content[p] # orig[p]
                           /\ Len(Recognised(orig[p])) = 2

\* C6: a completed scan has visited every file of the tree once, has called
\* update_file once on each .js/.ts file and never on another file; a file
\* with another extension is never read or written.
C6_ExtensionFilter ==
    /\ \A p \in AllFiles :
          ~HasSourceExtension(p) =>
              calls[p] = 0 /\ reads[p] = 0 /\ writes[p] = 0 /\ content[p] = orig[p]
    /\ pc = "done" =>
          \A p \in AllFiles :
              /\ Cardinality({ i \in 1..Len(visited) : visited[i] = p }) = 1
              /\ calls[p] = (IF HasSourceExtension(p) THEN 1 ELSE 0)

\* a run completed over a tree whose notes.md holds a matching reference
C6_Witness ==
    /\ pc = "done"
    /\ \E p \in AllFiles :
          /\ ~HasSourceExtension(p)
          /\ Recognised(content[p]) # <<>>
          /\ calls[p] = 0
    /\ calls[MainTs] = 1

\* C7: only a require call whose argument holds the target filename as a
\* path component is matched: every rewrite reported concerns a reference
\* in which the filename starts the argument or follows a separator.
C7_OnlyPathComponent ==
    \A i \in 1..Len(out) :
        out[i].kind = "updated" =>
            LET before == SubSeq(out[i].old, 3, Len(out[i].old) - 3)
            IN  before = <<>> \/ before[Len(before)] = SEP

\* C8: an I/O error ends the run at that file: the program has left, no
\* completion line was printed, no later file was read, written or
\* reported, and the files rewritten before keep their rewritten content.
C8_ErrorEndsRun ==
    ioError # <<>> =>
        /\ pc = "crashed"
        /\ ~ENABLED NextFix
        /\ \A i \in 1..Len(out) : out[i].kind # "complete"
        /\ visited[Len(visited)] = ioError
        /\ \A p \in AllFiles \ Range(visited) :
              /\ calls[p] = 0 /\ reads[p] = 0 /\ writes[p] = 0
              /\ content[p] = runStart[p]
              /\ \A i \in 1..Len(out) : out[i].file # p
        /\ \A p \in Range(visited) \ {ioError} :
              writes[p] = 1 =>
                  /\ Len(Recognised(content[p])) = Len(Recognised(runStart[p]))
                  /\ \A i \in 1..Len(Recognised(content[p])) :
                        Argument(content[p], Recognised(content[p])[i]) = ExpectedRel(p)

\* the run failed on main.ts after top.js was rewritten and before index.js
C8_Witness ==
    /\ ioError = MainTs
    /\ \E p \in AllFiles : writes[p] = 1 /\ content[p] # runStart[p]
    /\ \E p \in AllFiles \ Range(visited) :
          HasSourceExtension(p) /\ Recognised(content[p]) # <<>>

(***************************************************************************)
(* generate_structure.py (save_structure) and print_structure.py           *)
(* (print_tree) on a directory tree below the working directory:           *)
(*   a/  a/b/  a/b/a/ ... (chain directories deep), and c/ beside a/,      *)
(* every directory holding one file.                                       *)
(***************************************************************************)
MaxChain    == 4
MaxDepthArg == 3
IndentWidth == 4

ChainName(k) == IF k % 2 = 1 THEN <<"a">> ELSE <<"b">>

\* the directory a path string names, as components below the working directory
Below(path) == Drop(AbsPath(path), Len(Cwd))

IsChainDir(cs) == \A k \in 1..Len(cs) : cs[k] = ChainName(k)

\* os.scandir: the subdirectories and the files of a directory
TreeDirs(root) ==
    LET cs == Below(root) IN
    IF ~IsChainDir(cs) THEN <<>>
    ELSE (IF Len(cs) < chain THEN <<ChainName(Len(cs) + 1)>> ELSE <<>>)
         \o (IF cs = <<>> THEN << <<"c">> >> ELSE <<>>)

TreeFiles(root) == << <<"f", ".txt">> >>

\* the start paths a caller may pass for the working directory, a/ and a/b/
StartPaths ==
    { <<DOT>>, <<"a">>, <<"a", SEP>>, <<DOT, SEP, "a">> }
    \cup (IF chain >= 2 THEN { <<"a", SEP, "b">>, <<"a", SEP, "b", SEP>> } ELSE {})

InitTree ==
    /\ chain \in 1..MaxChain
    /\ startpath \in StartPaths
    /\ max_depth \in 0..MaxDepthArg
    /\ prog \in {"save_structure", "print_tree"}
    /\ tstack = <<startpath>>
    /\ lines = <<>>
    /\ tvisited = <<>>
    /\ tpc = "walk"
    /\ relIdle /\ fixIdle

DirLine(indent, root) ==
    [dir |-> TRUE, indent |-> indent, name |-> Basename(root) \o <<SEP>>, root |-> root]

FileLines(indent, root, files) ==
    [i \in 1..Len(files) |->
        [dir |-> FALSE, indent |-> indent, name |-> files[i], root |-> root]]

\* os.walk's next directories: the (possibly emptied) dirs list, joined to root
Descend(root, dirs) == [i \in 1..Len(dirs) |-> PathJoin(root, dirs[i])] \o Tail(tstack)

\* one iteration of save_structure's loop; indent counts leading spaces
SaveStructureStep ==
    /\ prog = "save_structure" /\ tpc = "walk" /\ tstack # <<>>
    /\ LET root      == Head(tstack)
           level     == StrCount(StrReplace(root, startpath, <<>>), SEP)
           indent    == IndentWidth * level
           subindent == IndentWidth * (level + 1)
       IN  /\ lines' = lines \o <<DirLine(indent, root)>>
                             \o FileLines(subindent, root, TreeFiles(root))
           /\ tstack' = Descend(root, TreeDirs(root))
           /\ tvisited' = Append(tvisited, root)
    /\ UNCHANGED <<startpath, max_depth, chain, prog, tpc, relVars, fixVars>>

\* the depth print_tree computes for a root
PrintDepth(root) == StrCount(Drop(root, Len(startpath)), SEP)

\* one iteration of print_tree's loop, depth < max_depth; indent counts the
\* repetitions of the four-character unit
PrintTreeWrite ==
    /\ prog = "print_tree" /\ tpc = "walk" /\ tstack # <<>>
    /\ LET root  == Head(tstack)
           depth == PrintDepth(root)
       IN  /\ depth < max_depth
           /\ lines' = lines \o <<DirLine(depth, root)>>
                             \o FileLines(depth + 1, root, TreeFiles(root))
           /\ tstack' = Descend(root, TreeDirs(root))
           /\ tvisited' = Append(tvisited, root)
    /\ UNCHANGED <<startpath, max_depth, chain, prog, tpc, relVars, fixVars>>

\* one iteration of print_tree's loop, depth >= max_depth: dirs[:] = []
PrintTreePrune ==
    /\ prog = "print_tree" /\ tpc = "walk" /\ tstack # <<>>
    /\ LET root  == Head(tstack)
           depth == PrintDepth(root)
       IN  /\ ~(depth < max_depth)
           /\ tstack' = Descend(root, <<>>)
           /\ tvisited' = Append(tvisited, root)
    /\ UNCHANGED <<startpath, max_depth, chain, prog, lines, tpc, relVars, fixVars>>

\* the walk is exhausted and the output file is closed
TreeDone ==
    /\ tpc = "walk" /\ tstack = <<>>
    /\ tpc' = "done"
    /\ UNCHANGED <<startpath, max_depth, chain, prog, tstack, lines, tvisited,
                   relVars, fixVars>>

NextTree ==
    \/ SaveStructureStep
    \/ PrintTreeWrite
    \/ PrintTreePrune
    \/ TreeDone

SpecTree == InitTree /\ [][NextTree]_vars

(***************************************************************************)
(* Properties of the tree dumpers                                          *)
(***************************************************************************)
\* how many directories a root lies below the start path
TrueDepth(root) == Len(AbsPath(root)) - Len(AbsPath(startpath))

\* the directories of the tree at or below the start path
RECURSIVE Subtree(_, _)
Subtree(root, fuel) ==
    {root} \cup
    (IF fuel = 0 THEN {}
     ELSE UNION { Subtree(PathJoin(root, TreeDirs(root)[i]), fuel - 1) :
                    i \in 1..Len(TreeDirs(root)) })

\* C9: every directory at depth d is written with 4*d leading spaces
\* (save_structure) or d indentation units (print_tree), and each of its
\* files with 4*(d+1) spaces or d+1 units, whatever the start path.
C9_IndentIsDepth ==
    \A i \in 1..Len(lines) :
        LET d    == TrueDepth(lines[i].root)
            unit == IF prog = "save_structure" THEN IndentWidth ELSE 1
        IN  lines[i].indent = unit * (IF lines[i].dir THEN d ELSE d + 1)

\* C9 for start paths written without a separator
C9_HoldsWithoutSeparator ==
    StrCount(startpath, SEP) = 0 => C9_IndentIsDepth

\* C10: print_tree writes no line for a directory at depth >= max_depth or
\* a file in it, never visits a directory deeper than max_depth, and has
\* visited and written every directory at depth < max_depth when it ends.
C10_DepthBound ==
    prog = "print_tree" =>
        /\ \A i \in 1..Len(lines) : TrueDepth(lines[i].root) < max_depth
        /\ \A i \in 1..Len(tvisited) : TrueDepth(tvisited[i]) <= max_depth
        /\ tpc = "done" =>
              \A r \in Subtree(startpath, MaxChain + 1) :
                  TrueDepth(r) < max_depth =>
                      \E i \in 1..Len(lines) : lines[i].dir /\ lines[i].root = r

\* C10 for start paths that do not end in a separator
C10_HoldsWithoutTrailingSeparator ==
    startpath[Len(startpath)] # SEP => C10_DepthBound

(***************************************************************************)
(* The three scripts together: any one of them is run                      *)
(***************************************************************************)
Init == InitRel \/ InitFix \/ InitTree

Next == NextRel \/ NextFix \/ NextTree

Spec == Init /\ [][Next]_vars

====
